---- MODULE Spec2Model ----
(***************************************************************************)
(* Model of the flowologist workflow engine: WorkflowInstance (execute,    *)
(* executeAsync, refresh, groupStepsByLevel), the graph utilities          *)
(* (topologicalSort) and the part of WorkflowBuilder that hands a finished *)
(* instance to the engine (createBuildFlow, build, buildAsync).            *)
(*                                                                         *)
(* JavaScript runs one job at a time.  A blocking run (execute, refresh)   *)
(* and the dispatch of one level of executeAsync are therefore sequences   *)
(* of steps no other job interleaves with; other jobs run only where       *)
(* executeAsync awaits.  The model takes one step per invocation of an     *)
(* implementation or action and keeps the other jobs out with Busy.        *)
(***************************************************************************)
EXTENDS Integers, Sequences, FiniteSets, TLC

VARIABLES
  steps,         \* WorkflowInstance.steps: names that have an implementation
  dependencies,  \* WorkflowInstance.dependencies: the base graph
  flows,         \* WorkflowInstance.flows: flow name -> FlowDefinition
  containers,    \* WorkflowInstance.containers: step name -> value
  instance,      \* "unbuilt", "building", "ready" (returned by build) or "failed"
  nextRun,       \* number of the next run; a run's values carry its number
  sync,          \* the blocking run in progress (execute / refresh / build)
  async,         \* the executeAsync run in progress
  orphans,       \* promises of build steps still awaited after their run rejected
  builder,       \* WorkflowBuilder: its FlowBuilders and the outcome of the last call
  calc           \* one call of a graph utility: its argument and what it returned

vars == <<steps, dependencies, flows, containers, instance, nextRun, sync, async, orphans,
          builder, calc>>

----------------------------------------------------------------------------
(* Bounds *)

\* runs a caller starts on one instance after the build run
MaxRuns == 2

\* the step names a declaration draws from, in declaration order
StepNames == <<"a", "b", "c">>

buildFlowName == "__build__"

Names == {StepNames[i] : i \in 1..Len(StepNames)}

\* a key the object does not have reads as undefined
Undefined == <<>>

Range(s) == {s[i] : i \in 1..Len(s)}

----------------------------------------------------------------------------
(* Values.  An implementation is an arbitrary function; the value it       *)
(* returns in run r is modelled as <<step, r>>, so that a value computed   *)
(* in one run is never equal to one computed in another.  The result of a  *)
(* flow action is <<step, r, "action">>.                                   *)

StepValue(s, r) == <<s, r>>

ActionValue(s, r) == <<s, r, "action">>

\* the promise an invocation made in run r returns
PromiseOf(s, r) == <<s, r, "promise">>

\* what one invocation of an implementation or action does: return a plain
\* value, throw, or return a promise
Outcomes == {"value", "throw", "promise"}

\* mutant: a promise is not recognised
isPromise_never(obj) == FALSE

\* obj instanceof Promise || typeof obj.then === 'function'
isPromise(obj) == Len(obj) = 3 /\ obj[3] = "promise"

----------------------------------------------------------------------------
(* Graphs: [keys |-> insertion-ordered key list, deps |-> key -> list] *)

\* dependencies[node] || []
DepsOf(g, node) == IF node \in DOMAIN g.deps THEN g.deps[node] ELSE <<>>

\* the names a graph mentions, as keys or as dependencies
NodesOf(g) == Range(g.keys) \cup UNION {Range(g.deps[n]) : n \in DOMAIN g.deps}

\* a name every object literal {} answers for without having it as a key of
\* its own: obj["toString"] is the function of Object.prototype, which is
\* truthy and is not iterable
InheritedNames == {"toString"}

RECURSIVE visit(_, _, _), visitDeps(_, _, _, _)
\* the closure visit of topologicalSort; st.err models a throw and
\* st.thrown says of what: the Error of the function, or the TypeError of
\* for (const dep of deps) when dependencies[node] is an inherited function
visit(g, node, st) ==
  IF st.err THEN st
  ELSE IF node \in st.temp THEN [st EXCEPT !.err = TRUE, !.thrown = "circular"]
  ELSE IF node \in st.visited THEN st
  ELSE LET st1 == [st EXCEPT !.temp = @ \cup {node}]
           st2 == visitDeps(g, DepsOf(g, node), 1, st1)
       IN  IF node \notin DOMAIN g.deps /\ node \in InheritedNames
             THEN [st1 EXCEPT !.err = TRUE, !.thrown = "notIterable"]
           ELSE IF st2.err THEN st2
           ELSE [st2 EXCEPT !.temp = @ \ {node},
                            !.visited = @ \cup {node},
                            !.result = Append(@, node)]

\* for (const dep of deps) visit(dep)
visitDeps(g, deps, i, st) ==
  IF i > Len(deps) \/ st.err THEN st
  ELSE visitDeps(g, deps, i + 1, visit(g, deps[i], st))

RECURSIVE sortNodes(_, _, _)
\* for (const node of nodes) if (!visited.has(node)) visit(node)
sortNodes(g, i, st) ==
  IF i > Len(g.keys) \/ st.err THEN st
  ELSE sortNodes(g, i + 1,
                 IF g.keys[i] \notin st.visited THEN visit(g, g.keys[i], st) ELSE st)

Reverse(q) == [k \in 1..Len(q) |-> q[Len(q) + 1 - k]]

\* const result = []; const visited = new Set(); const temp = new Set()
NewSort == [result |-> <<>>, visited |-> {}, temp |-> {}, err |-> FALSE, thrown |-> ""]

\* mutant: a node is emitted before, not after, the nodes it depends on
topologicalSort_dependentsFirst(g) ==
  LET st == sortNodes(g, 1, NewSort)
  IN  [st EXCEPT !.result = Reverse(@)]

\* mutant: the keys are returned in insertion order, unsorted
topologicalSort_insertionOrder(g) ==
  [sortNodes(g, 1, NewSort)
     EXCEPT !.result = g.keys]

\* [err |-> something was thrown, thrown |-> what, result |-> the sorted nodes]
topologicalSort(g) ==
  sortNodes(g, 1, NewSort)

\* mutant: the smaller of the two
Max_lower(a, b) == IF a >= b THEN b ELSE a

Max(a, b) == IF a >= b THEN a ELSE b

RECURSIVE getStepLevel(_, _), maxDepLevel(_, _, _, _)
\* mutant: every step is put in level 0
getStepLevel_flat(flow, stepName) == 0

\* the memo table stepLevels only saves recomputation: the level is a
\* function of the graph
getStepLevel(flow, stepName) ==
  LET deps == DepsOf(flow, stepName)
  IN  IF Len(deps) = 0 THEN 0
      ELSE maxDepLevel(flow, deps, 1, -1) + 1

\* mutant: only the first dependency is looked at
maxDepLevel_firstOnly(flow, deps, i, m) == Max(m, getStepLevel(flow, deps[1]))

maxDepLevel(flow, deps, i, m) ==
  IF i > Len(deps) THEN m
  ELSE maxDepLevel(flow, deps, i + 1, Max(m, getStepLevel(flow, deps[i])))

RECURSIVE padLevels(_, _)
\* while (levels.length <= level) levels.push([])
padLevels(levels, level) ==
  IF Len(levels) <= level THEN padLevels(Append(levels, <<>>), level) ELSE levels

RECURSIVE groupLoop(_, _, _, _)
groupLoop(flow, executionOrder, i, levels) ==
  IF i > Len(executionOrder) THEN levels
  ELSE LET level == getStepLevel(flow, executionOrder[i])
           padded == padLevels(levels, level)
       IN  groupLoop(flow, executionOrder, i + 1,
                     [padded EXCEPT ![level + 1] = Append(@, executionOrder[i])])

\* level k of the code is element k+1 of the sequence
groupStepsByLevel(flow, executionOrder) == groupLoop(flow, executionOrder, 1, <<>>)

calculateFlowExecutionOrder(flowName) == topologicalSort(flows[flowName])

----------------------------------------------------------------------------
(* Declarations handed to the engine *)

\* the names StepNames[i], i \in S, in declaration order
ListOf(S) ==
  [k \in 1..Cardinality(S) |->
     StepNames[CHOOSE i \in S : Cardinality({j \in S : j < i}) = k - 1]]

\* the base graphs addStep accepts: every dependency is declared earlier
BaseGraphs ==
  {[keys |-> StepNames, deps |-> d] :
     d \in {f \in [Names -> UNION {{ListOf(S) : S \in SUBSET (1..n)} : n \in 0..Len(StepNames)}] :
              \A i \in 1..Len(StepNames) :
                 \E S \in SUBSET (1..(i - 1)) : f[StepNames[i]] = ListOf(S)}}

\* the user flows declared on every instance (FlowBuilder.endFlow):
\*   chain   b after a, as in "should pass context between flow steps"
\*   against a after b: a flow-local edge the base graph does not have
\*   partial a is added without withFlowAction, b and c depend on it
UserFlows ==
  [chain   |-> [keys |-> <<"a", "b">>,
                deps |-> [a |-> <<>>, b |-> <<"a">>],
                steps |-> {"a", "b"}],
   against |-> [keys |-> <<"b", "a">>,
                deps |-> [b |-> <<>>, a |-> <<"b">>],
                steps |-> {"a", "b"}],
   partial |-> [keys |-> <<"a", "b", "c">>,
                deps |-> [a |-> <<>>, b |-> <<"a">>, c |-> <<"a">>],
                steps |-> {"b", "c"}]]

\* a flow name no flow was declared under
UnknownFlow == "missing"

\* WorkflowBuilder.createBuildFlow: every key of the base graph, same edges
createBuildFlow(g) == [keys |-> g.keys, deps |-> g.deps, steps |-> Range(g.keys)]

----------------------------------------------------------------------------
(* Run records *)

NoError == [step |-> "", cause |-> ""]

Empty == [n \in Names |-> Undefined]

IdleSync ==
  [status |-> "idle", api |-> "", flowName |-> "", run |-> 0,
   executionOrder |-> <<>>, i |-> 0, context |-> Empty, results |-> Empty,
   invoked |-> <<>>, outcome |-> [n \in Names |-> ""], args |-> Empty,
   container |-> Empty, before |-> Empty, error |-> NoError]

IdleAsync ==
  [status |-> "idle", api |-> "", flowName |-> "", run |-> 0,
   levelGroups |-> <<>>, level |-> 0, pos |-> 0,
   state |-> [n \in Names |-> "idle"], context |-> Empty, results |-> Empty,
   value |-> Empty, outcome |-> [n \in Names |-> ""], events |-> <<>>, args |-> Empty,
   container |-> Empty, before |-> Empty, error |-> NoError]

\* executeAsync is between the start of a level's map() and its await
Dispatching ==
  /\ async.status = "pending"
  /\ async.pos <= Len(async.levelGroups[async.level])

\* a job holds the thread: no other job runs until it yields
Busy == sync.status # "idle" \/ Dispatching

\* mutant: every flow is run the way the build flow is
IsBuild_always(flowName) == TRUE

\* flowName === this.buildFlowName
IsBuild(flowName) == flowName = buildFlowName

\* const inputData = {}; for (const dep of deps) inputData[dep] = containers[dep]
inputData(stepName) ==
  [n \in Names |->
     IF n \in Range(DepsOf(dependencies, stepName)) THEN containers[n] ELSE Undefined]

\* mutant: the action is given the results of its declared dependencies
\* only
contextArg_dependenciesOnly(flowName, stepName, context) ==
  [n \in Names |->
     IF n \in Range(DepsOf(flows[flowName], stepName)) THEN context[n] ELSE Undefined]

\* action(container, context): the context object of the run, as it is
\* when the action is invoked
contextArg(flowName, stepName, context) == context

\* this.steps[stepName] is undefined for a step declared without an
\* implementation: calling it throws a TypeError
OutcomesOf(flowName, stepName) ==
  IF IsBuild(flowName) /\ stepName \notin steps THEN {"throw"} ELSE Outcomes

\* what the run's values are: container values for the build flow, action
\* results for a user flow
Produced(flowName, stepName, run) ==
  IF IsBuild(flowName) THEN StepValue(stepName, run) ELSE ActionValue(stepName, run)

\* mutant: a step whose container is already filled is not computed again
Invoke_cached(flowName, stepName, run, outcome) ==
  IF flowName = buildFlowName /\ containers[stepName] # Undefined THEN containers[stepName]
  ELSE IF outcome = "promise" THEN PromiseOf(stepName, run)
  ELSE Produced(flowName, stepName, run)

\* this.steps[stepName](inputData) / action(container, context) when it
\* does not throw: the value or the promise it returns
Invoke(flowName, stepName, run, outcome) ==
  IF outcome = "promise" THEN PromiseOf(stepName, run)
  ELSE Produced(flowName, stepName, run)

\* mutant: the promise itself is passed on, not the value it settles to
Awaited_pending(flowName, promise) == promise

\* the value a promise returned in this run is fulfilled with
Awaited(flowName, promise) == Produced(flowName, promise[1], promise[2])

\* the engine's runs take a finished set of declarations: no builder call
\* and no call of a graph utility is in progress
NoBuilderError == [kind |-> "", flow |-> "", step |-> "", dep |-> ""]

NoCall == [op |-> "", name |-> "", deps |-> <<>>, error |-> NoBuilderError]

NoBuilder == [fbs |-> <<>>, flowSteps |-> <<>>, flowOrder |-> <<>>, tampered |-> FALSE,
              last |-> NoCall]

NoCalc == <<>>

Init ==
  /\ steps = Names
  /\ dependencies \in BaseGraphs
  /\ flows = [f \in {buildFlowName} \cup DOMAIN UserFlows |->
                IF f = buildFlowName THEN createBuildFlow(dependencies) ELSE UserFlows[f]]
  /\ containers = Empty
  /\ instance = "unbuilt"
  /\ nextRun = 1
  /\ sync = IdleSync
  /\ async = IdleAsync
  /\ orphans = {}
  /\ builder = NoBuilder
  /\ calc = NoCalc

----------------------------------------------------------------------------
(* Blocking runs: WorkflowInstance.execute, refresh, WorkflowBuilder.build *)

\* the part of execute before its loop, for a call through api; missing is
\* the error a flow name the instance does not have is answered with
BeginSync(api, flowName, missing) ==
  /\ ~Busy
  /\ nextRun <= MaxRuns + 1
  /\ IF flowName \notin DOMAIN flows
       THEN sync' = [IdleSync EXCEPT !.status = "raised", !.api = api,
                                     !.flowName = flowName, !.before = containers,
                                     !.error = [step |-> "", cause |-> missing]]
       ELSE LET sorted == calculateFlowExecutionOrder(flowName)
            IN  sync' = [IdleSync EXCEPT
                           !.status = IF sorted.err THEN "raised" ELSE "running",
                           !.api = api, !.flowName = flowName, !.run = nextRun,
                           !.executionOrder = sorted.result, !.i = 1,
                           !.before = containers,
                           !.error = IF sorted.err THEN [step |-> "", cause |-> "cycle"]
                                     ELSE NoError]
  /\ nextRun' = IF flowName \in DOMAIN flows THEN nextRun + 1 ELSE nextRun
  /\ instance' = IF api = "build" THEN "building" ELSE instance
  /\ UNCHANGED <<builder, calc, steps, dependencies, flows, containers, async, orphans>>

\* mutant: no look-up of the flow name, so reading the dependencies of the
\* missing flow definition fails with a TypeError
StartSync_unchecked(api, flowName) == BeginSync(api, flowName, "typeError")

\* if (!(flowName in this.flows)) throw new Error(`Flow "${flowName}" does not exist`)
StartSync(api, flowName) == BeginSync(api, flowName, "unknownFlow")

\* WorkflowBuilder.build: workflow.execute(this.buildFlowName)
build ==
  /\ instance = "unbuilt"
  /\ StartSync("build", buildFlowName)

\* a caller's execute(flowName) on a built instance
execute ==
  /\ instance = "ready"
  /\ \E flowName \in DOMAIN flows \cup {UnknownFlow} : StartSync("execute", flowName)

\* mutant: refresh runs a flow that is not the build flow
refresh_otherFlow ==
  /\ instance = "ready"
  /\ \E flowName \in DOMAIN flows \ {buildFlowName} : StartSync("refresh", flowName)

\* refresh(): this.execute(this.buildFlowName)
refresh ==
  /\ instance = "ready"
  /\ StartSync("refresh", buildFlowName)

\* mutant: the failure is rethrown without the name of the step
Wrapped_unnamed(stepName, cause) == [step |-> "", cause |-> cause]

\* the catch block: the failure wrapped with the name of the failing step
Wrapped(stepName, cause) == [step |-> stepName, cause |-> cause]

\* mutant: a step without action is called like any other, which throws
SyncSkip_called ==
  /\ sync.status = "running"
  /\ sync.i <= Len(sync.executionOrder)
  /\ sync.executionOrder[sync.i] \notin flows[sync.flowName].steps
  /\ sync' = [sync EXCEPT !.status = "raised",
                          !.error = Wrapped(sync.executionOrder[sync.i], "thrown")]
  /\ UNCHANGED <<builder, calc, steps, dependencies, flows, containers, instance, nextRun, async, orphans>>

\* if (!(stepName in flow.steps)) continue
SyncSkip ==
  /\ sync.status = "running"
  /\ sync.i <= Len(sync.executionOrder)
  /\ sync.executionOrder[sync.i] \notin flows[sync.flowName].steps
  /\ sync' = [sync EXCEPT !.i = @ + 1]
  /\ UNCHANGED <<builder, calc, steps, dependencies, flows, containers, instance, nextRun, async, orphans>>

\* one iteration of the loop of execute, build-flow branch; onFailure is
\* the container store the iteration leaves when it ends in the catch block
BuildStep(onFailure) ==
  /\ sync.status = "running"
  /\ sync.i <= Len(sync.executionOrder)
  /\ IsBuild(sync.flowName)
  /\ LET stepName == sync.executionOrder[sync.i]
     IN  /\ stepName \in flows[sync.flowName].steps
         /\ \E outcome \in OutcomesOf(sync.flowName, stepName) :
              LET stepResult == Invoke(sync.flowName, stepName, sync.run, outcome)
                  called == [sync EXCEPT !.invoked = Append(@, stepName),
                                         !.args[stepName] = inputData(stepName),
                                         !.outcome[stepName] = outcome]
              IN  IF outcome = "throw"
                    THEN /\ sync' = [called EXCEPT !.status = "raised",
                                                   !.error = Wrapped(stepName, "thrown")]
                         /\ containers' = onFailure
                  ELSE IF isPromise(stepResult)
                    THEN /\ sync' = [called EXCEPT !.status = "raised",
                                                   !.error = Wrapped(stepName, "promise")]
                         /\ containers' = onFailure
                  ELSE /\ containers' = [containers EXCEPT ![stepName] = stepResult]
                       /\ sync' = [called EXCEPT !.context[stepName] = stepResult,
                                                 !.results[stepName] = stepResult,
                                                 !.i = @ + 1]
  /\ UNCHANGED <<builder, calc, steps, dependencies, flows, instance, nextRun, async, orphans>>

\* mutant: a failed run leaves an empty container store
SyncBuildStep_cleared == BuildStep(Empty)

\* mutant: a failed run puts back the container store it started with
SyncBuildStep_rollback == BuildStep(sync.before)

\* the catch block rethrows and leaves what the run has written
SyncBuildStep == BuildStep(containers)

\* one iteration of the loop of execute, normal flow branch
SyncFlowStep ==
  /\ sync.status = "running"
  /\ sync.i <= Len(sync.executionOrder)
  /\ ~IsBuild(sync.flowName)
  /\ LET stepName == sync.executionOrder[sync.i]
     IN  /\ stepName \in flows[sync.flowName].steps
         /\ \E outcome \in OutcomesOf(sync.flowName, stepName) :
              LET actionResult == Invoke(sync.flowName, stepName, sync.run, outcome)
                  called == [sync EXCEPT !.invoked = Append(@, stepName),
                                         !.args[stepName] = contextArg(sync.flowName, stepName,
                                                                     sync.context),
                                         !.container[stepName] = containers[stepName],
                                         !.outcome[stepName] = outcome]
              IN  IF outcome = "throw"
                    THEN sync' = [called EXCEPT !.status = "raised",
                                                !.error = Wrapped(stepName, "thrown")]
                  ELSE IF isPromise(actionResult)
                    THEN sync' = [called EXCEPT !.status = "raised",
                                                !.error = Wrapped(stepName, "promise")]
                  ELSE sync' = [called EXCEPT !.context[stepName] = actionResult,
                                              !.results[stepName] = actionResult,
                                              !.i = @ + 1]
  /\ UNCHANGED <<builder, calc, steps, dependencies, flows, containers, instance, nextRun, async, orphans>>

\* mutant: the catch block returns what the run has so far
SyncReturn_partial ==
  /\ \/ sync.status = "running" /\ sync.i > Len(sync.executionOrder)
     \/ sync.status = "raised" /\ sync.invoked # <<>>
  /\ sync' = [sync EXCEPT !.status = "returned"]
  /\ UNCHANGED <<builder, calc, steps, dependencies, flows, containers, instance, nextRun, async, orphans>>

\* return { results, success: true }
SyncReturn ==
  /\ sync.status = "running"
  /\ sync.i > Len(sync.executionOrder)
  /\ sync' = [sync EXCEPT !.status = "returned"]
  /\ UNCHANGED <<builder, calc, steps, dependencies, flows, containers, instance, nextRun, async, orphans>>

\* the caller has the outcome of the call; build() returns the instance
\* only when its run returned
SyncDeliver ==
  /\ sync.status \in {"returned", "raised"}
  /\ sync' = IdleSync
  /\ instance' = IF sync.api = "build"
                   THEN (IF sync.status = "returned" THEN "ready" ELSE "failed")
                   ELSE instance
  /\ UNCHANGED <<builder, calc, steps, dependencies, flows, containers, nextRun, async, orphans>>

SyncNext ==
  \/ build
  \/ execute
  \/ refresh
  \/ SyncSkip
  \/ SyncBuildStep
  \/ SyncFlowStep
  \/ SyncReturn
  \/ SyncDeliver

----------------------------------------------------------------------------
(* Concurrent runs: WorkflowInstance.executeAsync, WorkflowBuilder.buildAsync *)

\* the part of executeAsync before its loop; the loop's first map() follows
\* in the same job
StartAsync(api, flowName) ==
  /\ ~Busy
  /\ async.status = "idle"
  /\ nextRun <= MaxRuns + 1
  /\ IF flowName \notin DOMAIN flows
       THEN async' = [IdleAsync EXCEPT !.status = "rejected", !.api = api,
                                       !.flowName = flowName,
                                       !.error = [step |-> "", cause |-> "unknownFlow"]]
       ELSE LET sorted == calculateFlowExecutionOrder(flowName)
                groups == groupStepsByLevel(flows[flowName], sorted.result)
            IN  async' = [IdleAsync EXCEPT
                            !.status = IF sorted.err THEN "rejected"
                                       ELSE IF Len(groups) = 0 THEN "resolved"
                                       ELSE "pending",
                            !.api = api, !.flowName = flowName, !.run = nextRun,
                            !.before = containers,
                            !.levelGroups = IF sorted.err THEN <<>> ELSE groups,
                            !.level = 1, !.pos = 1,
                            !.error = IF sorted.err THEN [step |-> "", cause |-> "cycle"]
                                      ELSE NoError]
  /\ nextRun' = IF flowName \in DOMAIN flows THEN nextRun + 1 ELSE nextRun
  /\ instance' = IF api = "buildAsync" THEN "building" ELSE instance
  /\ UNCHANGED <<builder, calc, steps, dependencies, flows, containers, sync, orphans>>

\* WorkflowBuilder.buildAsync: await workflow.executeAsync(this.buildFlowName)
buildAsync ==
  /\ instance = "unbuilt"
  /\ StartAsync("buildAsync", buildFlowName)

\* a caller's executeAsync(flowName) on a built instance
executeAsync ==
  /\ instance = "ready"
  /\ \E flowName \in DOMAIN flows \cup {UnknownFlow} : StartAsync("executeAsync", flowName)

\* Promise.all rejects with the first rejection it sees
FirstError(stepName, cause) ==
  IF async.error = NoError THEN Wrapped(stepName, cause) ELSE async.error

\* the callback of levelSteps.map up to its first await, for the next step
\* of the level: a plain value is stored at once, a promise is awaited
AsyncDispatch ==
  /\ sync.status = "idle"
  /\ Dispatching
  /\ LET stepName == async.levelGroups[async.level][async.pos]
         isBuild == IsBuild(async.flowName)
         called == [async EXCEPT !.pos = @ + 1,
                                 !.events = Append(@, <<"start", stepName>>),
                                 !.args[stepName] =
                                    IF isBuild THEN inputData(stepName)
                                    ELSE contextArg(async.flowName, stepName,
                                                    async.context),
                                 !.container[stepName] =
                                    IF isBuild THEN Undefined ELSE containers[stepName]]
     IN  IF stepName \notin flows[async.flowName].steps
           THEN /\ async' = [async EXCEPT !.pos = @ + 1, !.state[stepName] = "skipped"]
                /\ UNCHANGED containers
           ELSE \E outcome \in OutcomesOf(async.flowName, stepName) :
                  LET stepResult == Invoke(async.flowName, stepName, async.run, outcome)
                  IN  IF outcome = "throw"
                        THEN /\ async' = [called EXCEPT !.outcome[stepName] = outcome,
                                                        !.state[stepName] = "rejected",
                                                        !.error = FirstError(stepName, "thrown"),
                                                        !.events = Append(@, <<"end", stepName>>)]
                             /\ UNCHANGED containers
                      ELSE IF isPromise(stepResult)
                        THEN /\ async' = [called EXCEPT !.state[stepName] = "awaiting",
                                                        !.value[stepName] = stepResult,
                                                        !.outcome[stepName] = outcome]
                             /\ UNCHANGED containers
                      ELSE /\ async' = [called EXCEPT !.outcome[stepName] = outcome,
                                                      !.state[stepName] = "fulfilled",
                                                      !.value[stepName] = stepResult,
                                                      !.events = Append(@, <<"end", stepName>>)]
                           /\ containers' = IF isBuild
                                              THEN [containers EXCEPT ![stepName] = stepResult]
                                              ELSE containers
  /\ UNCHANGED <<builder, calc, steps, dependencies, flows, instance, nextRun, sync, orphans>>

\* mutant: a promise is awaited inside the loop over the level, so that it
\* can be fulfilled before the next step of the level is invoked
AsyncFulfil_inLoop(stepName) ==
  /\ sync.status = "idle"
  /\ async.status \in {"pending", "rejected"}
  /\ async.state[stepName] = "awaiting"
  /\ LET stepResult == Awaited(async.flowName, async.value[stepName])
     IN  /\ async' = [async EXCEPT !.state[stepName] = "fulfilled",
                                   !.value[stepName] = stepResult,
                                   !.events = Append(@, <<"end", stepName>>)]
         /\ containers' = IF IsBuild(async.flowName)
                            THEN [containers EXCEPT ![stepName] = stepResult]
                            ELSE containers
  /\ UNCHANGED <<builder, calc, steps, dependencies, flows, instance, nextRun, sync, orphans>>

\* the promise a step awaits is fulfilled: the rest of the callback runs
AsyncFulfil(stepName) ==
  /\ ~Busy
  /\ async.status \in {"pending", "rejected"}
  /\ async.state[stepName] = "awaiting"
  /\ LET stepResult == Awaited(async.flowName, async.value[stepName])
     IN  /\ async' = [async EXCEPT !.state[stepName] = "fulfilled",
                                   !.value[stepName] = stepResult,
                                   !.events = Append(@, <<"end", stepName>>)]
         /\ containers' = IF IsBuild(async.flowName)
                            THEN [containers EXCEPT ![stepName] = stepResult]
                            ELSE containers
  /\ UNCHANGED <<builder, calc, steps, dependencies, flows, instance, nextRun, sync, orphans>>

\* the promise a step awaits is rejected: the catch block wraps the reason
AsyncReject(stepName) ==
  /\ ~Busy
  /\ async.status \in {"pending", "rejected"}
  /\ async.state[stepName] = "awaiting"
  /\ async' = [async EXCEPT !.state[stepName] = "rejected",
                            !.error = FirstError(stepName, "rejected"),
                            !.events = Append(@, <<"end", stepName>>)]
  /\ UNCHANGED <<builder, calc, steps, dependencies, flows, containers, instance, nextRun, sync, orphans>>

LevelSteps == Range(async.levelGroups[async.level])

\* await Promise.all(levelPromises) throws: the run rejects
AsyncJoinReject ==
  /\ ~Busy
  /\ async.status = "pending"
  /\ \E s \in LevelSteps : async.state[s] = "rejected"
  /\ async' = [async EXCEPT !.status = "rejected"]
  /\ UNCHANGED <<builder, calc, steps, dependencies, flows, containers, instance, nextRun, sync, orphans>>

RECURSIVE foldLevel(_, _, _)
\* mutant: the results of a level are not written back into the context
foldLevel_dropped(levelSteps, i, acc) == acc

\* for (const item of levelResults) if (item) { context[..] = ..; results[..] = .. }
foldLevel(levelSteps, i, acc) ==
  IF i > Len(levelSteps) THEN acc
  ELSE foldLevel(levelSteps, i + 1,
                 IF async.state[levelSteps[i]] = "fulfilled"
                   THEN [acc EXCEPT ![levelSteps[i]] = async.value[levelSteps[i]]]
                   ELSE acc)

\* the rest of executeAsync once the await on the level is over
JoinLevel(ready) ==
  /\ ~Busy
  /\ async.status = "pending"
  /\ ready
  /\ LET levelSteps == async.levelGroups[async.level]
     IN  async' = [async EXCEPT
                     !.context = foldLevel(levelSteps, 1, async.context),
                     !.results = foldLevel(levelSteps, 1, async.results),
                     !.status = IF async.level = Len(async.levelGroups)
                                  THEN "resolved" ELSE "pending",
                     !.level = IF async.level = Len(async.levelGroups) THEN @ ELSE @ + 1,
                     !.pos = IF async.level = Len(async.levelGroups) THEN @ ELSE 1]
  /\ UNCHANGED <<builder, calc, steps, dependencies, flows, containers, instance, nextRun, sync, orphans>>

\* mutant: the level is left as soon as one of its steps is done
\* (Promise.race in place of Promise.all)
AsyncJoin_first ==
  JoinLevel(/\ \E s \in LevelSteps : async.state[s] \in {"fulfilled", "skipped"}
            /\ \A s \in LevelSteps : async.state[s] # "rejected")

\* mutant: the level is left once every step has settled, failed or not
\* (Promise.allSettled in place of Promise.all)
AsyncJoin_allSettled ==
  JoinLevel(\A s \in LevelSteps : async.state[s] \in {"fulfilled", "skipped", "rejected"})

\* mutant: the callback of a step without action never completes, so
\* that Promise.all waits for it
AsyncJoin_actionsOnly ==
  JoinLevel(\A s \in LevelSteps : async.state[s] = "fulfilled")

\* await Promise.all(levelPromises) returns: the results of the level are
\* folded in, then the next level starts or the run resolves
AsyncJoin ==
  JoinLevel(\A s \in LevelSteps : async.state[s] \in {"fulfilled", "skipped"})

\* the caller's await sees the run settle.  Steps of a rejected build run
\* that are still awaiting stay in flight; those of a user flow write
\* nothing when they settle and are dropped from the model
AsyncDeliver ==
  /\ ~Busy
  /\ async.status \in {"resolved", "rejected"}
  /\ orphans' = orphans \cup
       {async.value[s] :
          s \in {n \in Names : IsBuild(async.flowName) /\ async.state[n] = "awaiting"}}
  /\ async' = IdleAsync
  /\ instance' = IF async.api = "buildAsync"
                   THEN (IF async.status = "resolved" THEN "ready" ELSE "failed")
                   ELSE instance
  /\ UNCHANGED <<builder, calc, steps, dependencies, flows, containers, nextRun, sync>>

\* a step left in flight by a rejected build run is fulfilled and stores
\* its value
OrphanFulfil(o) ==
  /\ ~Busy
  /\ o \in orphans
  /\ containers' = [containers EXCEPT ![o[1]] = Awaited(buildFlowName, o)]
  /\ orphans' = orphans \ {o}
  /\ UNCHANGED <<builder, calc, steps, dependencies, flows, instance, nextRun, sync, async>>

\* a step left in flight by a rejected build run is rejected
OrphanReject(o) ==
  /\ ~Busy
  /\ o \in orphans
  /\ orphans' = orphans \ {o}
  /\ UNCHANGED <<builder, calc, steps, dependencies, flows, containers, instance, nextRun, sync, async>>

AsyncNext ==
  \/ buildAsync
  \/ executeAsync
  \/ AsyncDispatch
  \/ \E stepName \in Names : AsyncFulfil(stepName)
  \/ \E stepName \in Names : AsyncReject(stepName)
  \/ AsyncJoinReject
  \/ AsyncJoin
  \/ AsyncDeliver
  \/ \E o \in orphans : OrphanFulfil(o)
  \/ \E o \in orphans : OrphanReject(o)

Next == SyncNext \/ AsyncNext

Spec == Init /\ [][Next]_vars

\* a blocking call runs to its end: nothing can suspend it
SyncProgress == SyncSkip \/ SyncBuildStep \/ SyncFlowStep \/ SyncReturn \/ SyncDeliver

\* the jobs of a concurrent run: the map() of a level, the continuation of
\* a callback whose promise has settled, the continuation of executeAsync
\* after await Promise.all
AsyncProgress ==
  \/ AsyncDispatch
  \/ \E stepName \in Names : AsyncFulfil(stepName) \/ AsyncReject(stepName)
  \/ AsyncJoinReject
  \/ AsyncJoin

\* the calls a program makes on the builder and on the instance
Calls == build \/ execute \/ refresh \/ buildAsync \/ executeAsync

\* the runs followed to their end
LiveRuns == 1

NextLive ==
  \/ nextRun <= LiveRuns + 1 /\ Calls
  \/ SyncProgress
  \/ AsyncProgress
  \/ AsyncDeliver
  \/ \E o \in orphans : OrphanFulfil(o)
  \/ \E o \in orphans : OrphanReject(o)

\* the engine under the scheduling of the job queue: a running job ends,
\* and a continuation that is ready is run however often blocking calls
\* are made in between; every promise a step returned settles
SpecLive ==
  Init /\ [][NextLive]_vars /\ WF_vars(SyncProgress) /\ SF_vars(AsyncProgress)

----------------------------------------------------------------------------
(* Properties of the execution engine *)

\* the declared dependencies of a step in a flow's own graph
FlowDeps(flowName, s) == Range(DepsOf(flows[flowName], s))

\* this step of the blocking run invokes the implementation or action of s
SyncInvokes(s) ==
  /\ sync.status = "running"
  /\ Len(sync'.invoked) = Len(sync.invoked) + 1
  /\ sync'.invoked[Len(sync'.invoked)] = s

\* this step of the concurrent run invokes the implementation or action of s
AsyncInvokes(s) ==
  /\ async.status = "pending"
  /\ Len(async'.events) > Len(async.events)
  /\ async'.events[Len(async.events) + 1] = <<"start", s>>

\* d has completed in the blocking run and its output is there to read
SyncDepReady(d) ==
  /\ sync.outcome[d] = "value"
  /\ IF sync.flowName = buildFlowName THEN containers[d] # Undefined
     ELSE sync.context[d] # Undefined

\* d has completed in the concurrent run and its output is there to read
AsyncDepReady(d) ==
  /\ async.state[d] = "fulfilled"
  /\ IF async.flowName = buildFlowName THEN containers[d] # Undefined
     ELSE async.context[d] # Undefined

\* C1 as stated: in every run, when a step's implementation or action is
\* invoked, every declared dependency of the step in the flow's graph has
\* completed in this run and its output is available
C1_DependenciesFirst_AsStated ==
  [][\A s \in Names :
       /\ SyncInvokes(s) => \A d \in FlowDeps(sync.flowName, s) : SyncDepReady(d)
       /\ AsyncInvokes(s) => \A d \in FlowDeps(async.flowName, s) : AsyncDepReady(d)]_vars

\* C1 amended: the same for every declared dependency that has an action
\* in the flow (a flow step added without an action is skipped, and its
\* dependents run without it)
C1_DependenciesFirst ==
  [][\A s \in Names :
       /\ SyncInvokes(s) =>
            \A d \in FlowDeps(sync.flowName, s) \cap flows[sync.flowName].steps :
               SyncDepReady(d)
       /\ AsyncInvokes(s) =>
            \A d \in FlowDeps(async.flowName, s) \cap flows[async.flowName].steps :
               AsyncDepReady(d)]_vars

\* a concurrent run has invoked a step that has a dependency with an action
C1_Witness ==
  /\ async.status = "pending"
  /\ \E i \in 1..Len(async.events) :
       /\ async.events[i][1] = "start"
       /\ FlowDeps(async.flowName, async.events[i][2])
            \cap flows[async.flowName].steps # {}

Settled == {"fulfilled", "rejected", "skipped"}

\* the steps of level k of the concurrent run (k counts from 1)
Level(k) == Range(async.levelGroups[k])

Levels == 1..Len(async.levelGroups)

\* the level groupStepsByLevel put s in
LevelOf(s) == CHOOSE k \in Levels : s \in Level(k)

\* the positions of the events of one kind for s in the run's log
Events(kind, s) == {i \in 1..Len(async.events) : async.events[i] = <<kind, s>>}

\* C2: in every executeAsync run no step of level k+1 is dispatched until
\* every step of level k has settled, and steps are dispatched in
\* increasing order of level
C2_LevelBarrier ==
  async.status # "idle" =>
    /\ \A k \in Levels : \A s \in Level(k) :
         async.state[s] # "idle" =>
           \A j \in 1..(k - 1) : \A t \in Level(j) : async.state[t] \in Settled
    /\ \A i, j \in 1..Len(async.events) :
         (i < j /\ async.events[i][1] = "start" /\ async.events[j][1] = "start")
           => LevelOf(async.events[i][2]) <= LevelOf(async.events[j][2])

\* a step of the second level is dispatched after a step of the first level
\* returned a promise
C2_Witness ==
  /\ async.status = "pending"
  /\ Len(async.levelGroups) >= 2
  /\ \E t \in Level(1) : async.outcome[t] = "promise"
  /\ \E s \in Level(2) : async.state[s] # "idle"

\* C3: when a step of a level of an executeAsync run has failed, the run
\* does not resolve, it rejects with the failure of a step of that level,
\* and no step of a later level is dispatched
C3_FailedLevelEndsRun ==
  async.status # "idle" =>
    \A k \in Levels :
      (\E t \in Level(k) : async.state[t] = "rejected") =>
        /\ async.status # "resolved"
        /\ \A j \in (k + 1)..Len(async.levelGroups) :
             \A s \in Level(j) : async.state[s] = "idle"
        /\ async.status = "rejected" =>
             /\ async.error.step \in Level(k)
             /\ async.state[async.error.step] = "rejected"

\* a run has rejected after two steps of one level failed, with a later
\* level left
C3_Witness ==
  /\ async.status = "rejected"
  /\ async.level < Len(async.levelGroups)
  /\ Cardinality({t \in Level(async.level) : async.state[t] = "rejected"}) = 2

RECURSIVE DependsOn(_, _, _)
\* t is a direct or transitive dependency of s in the graph g
DependsOn(g, s, t) ==
  \E d \in Range(DepsOf(g, s)) : d = t \/ DependsOn(g, d, t)

\* s was invoked, and before t finished
StartedBeforeEnd(s, t) ==
  /\ Events("start", s) # {}
  /\ \A i \in Events("start", s) : \A j \in Events("end", t) : i < j

\* C4 as stated: any two steps of an executeAsync run with no dependency
\* relation whose implementations are deferred have both started before
\* either has finished
C4_BothStartFirst_AsStated ==
  async.status # "idle" =>
    \A s, t \in Names :
      ( /\ s # t
        /\ async.outcome[s] = "promise" /\ async.outcome[t] = "promise"
        /\ ~DependsOn(flows[async.flowName], s, t)
        /\ ~DependsOn(flows[async.flowName], t, s) )
      => StartedBeforeEnd(s, t)

\* C4 amended: all steps of one level are dispatched before the engine
\* waits for any of them: when a step of a level that returned a promise
\* finishes, every other step of that level that has an action has started
C4_BothStartFirst ==
  async.status # "idle" =>
    \A k \in Levels : \A s, t \in Level(k) :
      ( /\ s # t
        /\ s \in flows[async.flowName].steps
        /\ async.outcome[t] = "promise"
        /\ Events("end", t) # {} )
      => StartedBeforeEnd(s, t)

\* two steps of one level both returned a promise and both have finished
C4_Witness ==
  /\ async.status # "idle"
  /\ \E k \in Levels : \E s, t \in Level(k) :
       /\ s # t
       /\ async.outcome[s] = "promise" /\ async.outcome[t] = "promise"
       /\ Events("end", s) # {} /\ Events("end", t) # {}

\* this step is taken by a blocking run of a flow other than the build flow
UserSyncStep ==
  /\ sync' # sync
  /\ \/ sync.status # "idle" /\ sync.flowName # buildFlowName
     \/ sync.status = "idle" /\ sync'.flowName # buildFlowName

\* this step is taken by a concurrent run of a flow other than the build flow
UserAsyncStep ==
  /\ async' # async
  /\ \/ async.status # "idle" /\ async.flowName # buildFlowName
     \/ async.status = "idle" /\ async'.flowName # buildFlowName

\* C5: no step of an execute or executeAsync run of a flow other than the
\* build flow changes the container store, and when a blocking run of such
\* a flow returns or raises the store is as it was when the run started
C5_UserFlowKeepsContainers ==
  /\ [][(UserSyncStep \/ UserAsyncStep) => containers' = containers]_vars
  /\ []((sync.status \in {"returned", "raised"} /\ sync.flowName # buildFlowName)
          => containers = sync.before)

\* a blocking run of a user flow has raised at its second action
C5_Witness ==
  /\ sync.status = "raised"
  /\ sync.flowName \in DOMAIN UserFlows
  /\ Len(sync.invoked) = 2
  /\ sync.error.cause = "thrown"

\* the steps of the blocking run's order after position sync.i
LaterSteps == {sync.executionOrder[k] : k \in (sync.i + 1)..Len(sync.executionOrder)}

\* the blocking run stopped at s: s is the last step invoked and no step
\* later in the order was invoked
SyncStoppedAt(s) ==
  /\ sync.status = "raised"
  /\ sync.i <= Len(sync.executionOrder)
  /\ sync.executionOrder[sync.i] = s
  /\ sync.invoked # <<>>
  /\ sync.invoked[Len(sync.invoked)] = s
  /\ LaterSteps \cap Range(sync.invoked) = {}

\* C6: a failure raised by a step implementation or a flow action is
\* re-raised as an error that names the failing step and carries the
\* cause, and it ends the run: in execute no later step is invoked, in
\* executeAsync the run does not resolve
C6_FailureNamesStepAndAborts ==
  /\ \A s \in Names :
       sync.outcome[s] = "throw" =>
         /\ sync.error = [step |-> s, cause |-> "thrown"]
         /\ SyncStoppedAt(s)
  /\ \A s \in Names :
       async.state[s] = "rejected" =>
         /\ async.status \in {"pending", "rejected"}
         /\ async.error.step \in Names
         /\ async.state[async.error.step] = "rejected"
         /\ async.error.cause =
              (IF async.outcome[async.error.step] = "throw" THEN "thrown" ELSE "rejected")

\* a blocking run has raised at a step that is neither the first nor the
\* last of its order
C6_Witness ==
  /\ sync.status = "raised"
  /\ sync.error.cause = "thrown"
  /\ sync.i > 1
  /\ sync.i < Len(sync.executionOrder)

\* C7: in execute, a step or action that returns a promise makes the run
\* raise at once with the error that tells to use executeAsync: no later
\* step is invoked, the step writes neither its container nor a result, and
\* the steps before it keep the values this run wrote
C7_PromiseInBlockingRun ==
  \A s \in Names :
    sync.outcome[s] = "promise" =>
      /\ sync.error = [step |-> s, cause |-> "promise"]
      /\ SyncStoppedAt(s)
      /\ sync.results[s] = Undefined
      /\ sync.context[s] = Undefined
      /\ containers[s] = sync.before[s]
      /\ \A k \in 1..(sync.i - 1) :
           LET t == sync.executionOrder[k]
           IN  t \in flows[sync.flowName].steps =>
                 /\ sync.results[t] # Undefined
                 /\ sync.flowName = buildFlowName => containers[t] = StepValue(t, sync.run)

\* refresh() has raised because its second or a later step returned a promise
C7_Witness ==
  /\ sync.status = "raised"
  /\ sync.api = "refresh"
  /\ sync.error.cause = "promise"
  /\ sync.i > 1

\* C8: when a blocking build-flow run fails at step s, every step before s
\* in the order holds the value computed in this run, and s and every step
\* after it hold the value they held before the run
C8_FailedRefreshKeepsPartialWrites ==
  (sync.status = "raised" /\ sync.flowName = buildFlowName /\ sync.error.step # "") =>
    \A k \in 1..Len(sync.executionOrder) :
      LET t == sync.executionOrder[k]
      IN  IF k < sync.i THEN containers[t] = StepValue(t, sync.run)
          ELSE containers[t] = sync.before[t]

\* refresh() has failed after its first step, on a store that was full
C8_Witness ==
  /\ sync.status = "raised"
  /\ sync.api = "refresh"
  /\ sync.i > 1
  /\ \A n \in Names : sync.before[n] # Undefined

\* C9: a successful build-flow run has invoked every step's implementation
\* exactly once and has overwritten every container with the value
\* computed in this run
C9_FullRecomputation ==
  /\ []((sync.status = "returned" /\ sync.flowName = buildFlowName) =>
          \A n \in Range(dependencies.keys) :
             /\ Cardinality({k \in 1..Len(sync.invoked) : sync.invoked[k] = n}) = 1
             /\ containers[n] = StepValue(n, sync.run)
             /\ containers[n] # sync.before[n])
  /\ []((async.status = "resolved" /\ async.flowName = buildFlowName) =>
          \A n \in Range(dependencies.keys) :
             /\ Cardinality(Events("start", n)) = 1
             /\ async.value[n] = StepValue(n, async.run))
  /\ [][\A n \in Names :
          ( /\ async.flowName = buildFlowName
            /\ async.state[n] # "fulfilled"
            /\ async'.state[n] = "fulfilled" )
          => containers'[n] = StepValue(n, async.run)]_vars

\* refresh() has returned on an instance whose containers were filled by
\* the build run
C9_Witness ==
  /\ sync.status = "returned"
  /\ sync.api = "refresh"
  /\ \A n \in Names : sync.before[n] = StepValue(n, 1)

\* the base dependencies of a step
BaseDeps(s) == Range(DepsOf(dependencies, s))

\* the value a build step returns is the one stored under its key and the
\* one reported under its key in the results of the run
C10_StoredAndReported ==
  /\ [][\A s \in Names :
          /\ ( /\ sync.flowName = buildFlowName
               /\ sync.outcome[s] = ""
               /\ sync'.outcome[s] = "value" )
             => /\ containers'[s] = StepValue(s, sync.run)
                /\ sync'.results[s] = StepValue(s, sync.run)
          /\ ( /\ async.flowName = buildFlowName
               /\ async.state[s] # "fulfilled"
               /\ async'.state[s] = "fulfilled" )
             => /\ containers'[s] = StepValue(s, async.run)
                /\ async'.value[s] = StepValue(s, async.run)]_vars
  /\ [](async.flowName = buildFlowName =>
          \A s \in Names :
             /\ async.results[s] # Undefined => async.results[s] = StepValue(s, async.run)
             /\ (async.status = "resolved" /\ async.state[s] = "fulfilled")
                  => async.results[s] = StepValue(s, async.run))

\* C10 as stated: in a build-flow run each step receives, for each of its
\* base dependencies, the value that dependency produced in this same run,
\* and the value it returns is the one stored and reported under its key
C10_BuildStepDataFlow_AsStated ==
  /\ [](sync.flowName = buildFlowName =>
          \A s \in Range(sync.invoked) : \A d \in BaseDeps(s) :
             sync.args[s][d] = StepValue(d, sync.run))
  /\ [](async.flowName = buildFlowName =>
          \A s \in {n \in Names : Events("start", n) # {}} : \A d \in BaseDeps(s) :
             async.args[s][d] = StepValue(d, async.run))
  /\ C10_StoredAndReported

\* the steps the concurrent run has invoked
AsyncInvoked == {n \in Names : Events("start", n) # {}}

\* C11 as stated: in execute and executeAsync of a user flow, the context a
\* step's action is invoked with holds, for every declared flow-local
\* dependency of the step, the result that dependency's action produced
\* in this same run
C11_ContextHoldsDependencies_AsStated ==
  /\ (sync.flowName \in DOMAIN flows /\ sync.flowName # buildFlowName) =>
        \A s \in Range(sync.invoked) : \A d \in FlowDeps(sync.flowName, s) :
           sync.args[s][d] = ActionValue(d, sync.run)
  /\ (async.flowName \in DOMAIN flows /\ async.flowName # buildFlowName) =>
        \A s \in AsyncInvoked : \A d \in FlowDeps(async.flowName, s) :
           async.args[s][d] = ActionValue(d, async.run)

\* C11 amended: the same for every declared flow-local dependency that has
\* an action in the flow; a dependency added without an action produces
\* nothing and the context has no entry for it
C11_ContextHoldsDependencies ==
  /\ (sync.flowName \in DOMAIN flows /\ sync.flowName # buildFlowName) =>
        \A s \in Range(sync.invoked) : \A d \in FlowDeps(sync.flowName, s) :
           sync.args[s][d] = IF d \in flows[sync.flowName].steps
                               THEN ActionValue(d, sync.run) ELSE Undefined
  /\ (async.flowName \in DOMAIN flows /\ async.flowName # buildFlowName) =>
        \A s \in AsyncInvoked : \A d \in FlowDeps(async.flowName, s) :
           async.args[s][d] = IF d \in flows[async.flowName].steps
                                THEN ActionValue(d, async.run) ELSE Undefined

\* both kinds of run have invoked, in a user flow, an action whose context
\* holds the result of a dependency from the same run; the blocking run
\* is a later run than the first one on the instance
C11_Witness ==
  /\ sync.flowName \in DOMAIN flows /\ sync.flowName # buildFlowName
  /\ sync.run > 2
  /\ \E s \in Range(sync.invoked) : \E d \in FlowDeps(sync.flowName, s) :
        sync.args[s][d] = ActionValue(d, sync.run)
  /\ async.flowName \in DOMAIN flows /\ async.flowName # buildFlowName
  /\ \E s \in AsyncInvoked : \E d \in FlowDeps(async.flowName, s) :
        async.args[s][d] = ActionValue(d, async.run)

\* the error a call with a flow name the instance does not have ends with
UnknownFlowError == [step |-> "", cause |-> "unknownFlow"]

C17_ResultsOnlyOnSuccess ==
  /\ [](sync.status = "returned" =>
          \A n \in Names :
             IF n \in flows[sync.flowName].steps
               THEN /\ sync.outcome[n] = "value"
                    /\ sync.results[n] = Produced(sync.flowName, n, sync.run)
               ELSE /\ sync.outcome[n] = ""
                    /\ sync.results[n] = Undefined)
  /\ [](async.status = "resolved" =>
          \A n \in Names :
             IF n \in flows[async.flowName].steps
               THEN /\ async.state[n] = "fulfilled"
                    /\ async.results[n] = Produced(async.flowName, n, async.run)
               ELSE /\ async.state[n] \in {"idle", "skipped"}
                    /\ async.results[n] = Undefined)
  /\ [][/\ sync.status = "raised" => sync'.status \in {"raised", "idle"}
        /\ async.status = "rejected" => async'.status \in {"rejected", "idle"}
        /\ (sync.status = "running" /\ sync'.status = "returned") =>
              \A n \in Names : sync.outcome[n] \in {"", "value"}
        /\ (async.status = "pending" /\ async'.status = "resolved") =>
              \A n \in Names : async.state[n] \in {"idle", "skipped", "fulfilled"}]_vars

\* a blocking run of a flow with an action-less step has returned, and a
\* concurrent run of such a flow has resolved
C17_Witness ==
  /\ sync.status = "returned"
  /\ Range(flows[sync.flowName].keys) \ flows[sync.flowName].steps # {}
  /\ async.status = "resolved"
  /\ Range(flows[async.flowName].keys) \ flows[async.flowName].steps # {}

----------------------------------------------------------------------------
(* The graph utilities on their own: one call of topologicalSort or of     *)
(* hasCircularDependency on a graph drawn from a bounded set.  A graph is  *)
(* Record<string, string[]>: keys in insertion order, a list per key.      *)

\* length of the dependency list of a node
MaxDeps == 2

\* the lists over S without repetition, up to length n
ListsOver(S, n) ==
  {q \in UNION {[1..k -> S] : k \in 0..n} : \A i, j \in DOMAIN q : q[i] = q[j] => i = j}

\* every graph over the step names: any subset of them as keys, in any
\* insertion order, each with any list of names, keys or not
CalcGraphs ==
  UNION {{[keys |-> ks, deps |-> d] : d \in [Range(ks) -> ListsOver(Names, MaxDeps)]} :
           ks \in ListsOver(Names, Cardinality(Names))}

RECURSIVE hasCycle(_, _, _), hasCycleDeps(_, _, _, _)
\* the closure hasCycle of hasCircularDependency; st.found is its return
\* value (a return of true leaves recStack as it is); st.visited and
\* st.recStack are the names for which visited[name] and recStack[name]
\* read as true
hasCycle(g, node, st) ==
  IF node \notin st.visited
    THEN LET st1 == [st EXCEPT !.visited = @ \cup {node}, !.recStack = @ \cup {node}]
             st2 == hasCycleDeps(g, DepsOf(g, node), 1, st1)
         IN  IF st2.found THEN st2 ELSE [st2 EXCEPT !.recStack = @ \ {node}]
    ELSE [st EXCEPT !.recStack = @ \ {node}]

\* for (const dep of deps): if (!visited[dep] && hasCycle(dep)) return true;
\*                          else if (recStack[dep]) return true;
hasCycleDeps(g, deps, i, st) ==
  IF i > Len(deps) THEN st
  ELSE IF deps[i] \notin st.visited
    THEN LET st1 == hasCycle(g, deps[i], st)
         IN  IF st1.found \/ deps[i] \in st1.recStack THEN [st1 EXCEPT !.found = TRUE]
             ELSE hasCycleDeps(g, deps, i + 1, st1)
  ELSE IF deps[i] \in st.recStack THEN [st EXCEPT !.found = TRUE]
  ELSE hasCycleDeps(g, deps, i + 1, st)

RECURSIVE hasCycleFrom(_, _, _)
\* for (const node in dependencies) if (hasCycle(node)) return true
hasCycleFrom(g, i, st) ==
  IF i > Len(g.keys) THEN FALSE
  ELSE LET st1 == hasCycle(g, g.keys[i], st)
       IN  st1.found \/ hasCycleFrom(g, i + 1, st1)

\* hasCircularDependency(dependencies), called without a start node
hasCircularDependency(g) ==
  hasCycleFrom(g, 1, [visited |-> InheritedNames, recStack |-> InheritedNames,
                      found |-> FALSE])

\* the diamond a, b(a), c(a), d(b, c)
Diamond ==
  [keys |-> <<"a", "b", "c", "d">>,
   deps |-> [n \in {"a", "b", "c", "d"} |->
               CASE n = "a" -> <<>>
                 [] n = "d" -> <<"b", "c">>
                 [] OTHER   -> <<"a">>]]

\* graphs in which a name is one every object inherits
InheritedGraphs ==
  LET names == {StepNames[1]} \cup InheritedNames
  IN  UNION {{[keys |-> ks, deps |-> d] : d \in [Range(ks) -> ListsOver(names, MaxDeps)]} :
               ks \in ListsOver(names, Cardinality(names))}

IdleCalc == [graph |-> [keys |-> <<>>, deps |-> <<>>], fn |-> "", out |-> <<>>]

InitUtils ==
  /\ steps = {}
  /\ dependencies = IdleCalc.graph
  /\ flows = <<>>
  /\ containers = Empty
  /\ instance = "none"
  /\ nextRun = 1
  /\ sync = IdleSync
  /\ async = IdleAsync
  /\ orphans = {}
  /\ builder = NoBuilder
  /\ calc \in {[IdleCalc EXCEPT !.graph = g] : g \in CalcGraphs \cup InheritedGraphs \cup {Diamond}}

\* topologicalSort(graph) is called and returns or throws
CallTopologicalSort ==
  /\ calc # NoCalc
  /\ calc.fn = ""
  /\ calc' = [calc EXCEPT !.fn = "topologicalSort", !.out = topologicalSort(calc.graph)]
  /\ UNCHANGED <<builder, steps, dependencies, flows, containers, instance, nextRun,
                 sync, async, orphans>>

\* hasCircularDependency(graph) is called and returns
CallHasCircularDependency ==
  /\ calc # NoCalc
  /\ calc.fn = ""
  /\ calc' = [calc EXCEPT !.fn = "hasCircularDependency",
                          !.out = hasCircularDependency(calc.graph)]
  /\ UNCHANGED <<builder, steps, dependencies, flows, containers, instance, nextRun,
                 sync, async, orphans>>

\* groupStepsByLevel(flow, executionOrder) is called as execute and
\* executeAsync call it: on the order calculateFlowExecutionOrder returned,
\* for a flow of an instance. Such a flow names no inherited property:
\* addStep and addFlowStep take one for a duplicate key, and build fails on
\* one that is a dependency
CallGroupStepsByLevel ==
  /\ calc # NoCalc
  /\ calc.fn = ""
  /\ NodesOf(calc.graph) \cap InheritedNames = {}
  /\ ~topologicalSort(calc.graph).err
  /\ calc' = [calc EXCEPT
                !.fn = "groupStepsByLevel",
                !.out = [executionOrder |-> topologicalSort(calc.graph).result,
                         levels |-> groupStepsByLevel(calc.graph,
                                                      topologicalSort(calc.graph).result)]]
  /\ UNCHANGED <<builder, steps, dependencies, flows, containers, instance, nextRun,
                 sync, async, orphans>>

NextUtils == CallTopologicalSort \/ CallHasCircularDependency \/ CallGroupStepsByLevel

SpecUtils == InitUtils /\ [][NextUtils]_vars

RECURSIVE PathWithin(_, _, _, _)
\* there is a path of at least one and at most k edges from s to t
PathWithin(g, s, t, k) ==
  /\ k > 0
  /\ \E d \in Range(DepsOf(g, s)) : d = t \/ PathWithin(g, d, t, k - 1)

\* no node of the graph depends, directly or not, on itself
Acyclic(g) == \A n \in NodesOf(g) : ~PathWithin(g, n, n, Cardinality(NodesOf(g)))

\* every dependency name of the graph is one of its keys
Closed(g) == NodesOf(g) = Range(g.keys)

\* the positions of n in the sequence q
Positions(q, n) == {i \in 1..Len(q) : q[i] = n}

\* C14: for every acyclic graph whose dependency names are all keys,
\* topologicalSort returns a sequence that contains every node exactly
\* once and places each node after all of its dependencies
C14_TopologicalSortOrders ==
  (calc.fn = "topologicalSort" /\ Acyclic(calc.graph) /\ Closed(calc.graph)) =>
    /\ ~calc.out.err
    /\ Range(calc.out.result) = Range(calc.graph.keys)
    /\ \A n \in Range(calc.graph.keys) :
         /\ Cardinality(Positions(calc.out.result, n)) = 1
         /\ \A d \in Range(DepsOf(calc.graph, n)) :
              \A i \in Positions(calc.out.result, n) :
                 \E j \in Positions(calc.out.result, d) : j < i

\* the sort has returned for an acyclic graph of three keys in which a key
\* inserted first depends on one inserted later, through another
C14_Witness ==
  /\ calc.fn = "topologicalSort"
  /\ Acyclic(calc.graph) /\ Closed(calc.graph)
  /\ Len(calc.graph.keys) = 3
  /\ calc.graph.deps[calc.graph.keys[1]] = <<calc.graph.keys[2]>>
  /\ calc.graph.deps[calc.graph.keys[2]] = <<calc.graph.keys[3]>>
  /\ ~calc.out.err

----------------------------------------------------------------------------
(* WorkflowBuilder: the declaration of steps.  steps, dependencies and     *)
(* flows are the builder's own objects, which build() hands to the         *)
(* instance by reference.  builder.last is the last call made on the       *)
(* builder and the Error it threw, if any.                                 *)

\* `Step "${name}" already exists`
DuplicateStepError(name) == [NoBuilderError EXCEPT !.kind = "duplicateStep", !.step = name]

\* `Dependency "${dep}" does not exist for step "${name}"`
MissingDependencyError(name, dep) ==
  [NoBuilderError EXCEPT !.kind = "missingDependency", !.step = name, !.dep = dep]

\* `Circular dependency detected in workflow` (flowName is "") and
\* `Circular dependency detected in flow "${flowName}"`
CircularDependencyError(flowName) ==
  [NoBuilderError EXCEPT !.kind = "circularDependency", !.flow = flowName]

\* the call that was made and how it ended
Call(op, name, deps, error) == [op |-> op, name |-> name, deps |-> deps, error |-> error]

\* record[name] = deps: a new key goes last, a key the record has keeps
\* its place
Assign(g, name, deps) ==
  [keys |-> IF name \in Range(g.keys) THEN g.keys ELSE Append(g.keys, name),
   deps |-> [n \in Range(g.keys) \cup {name} |-> IF n = name THEN deps ELSE g.deps[n]]]

\* mutant: a dependency only has to be declared, not implemented
Missing_undeclared(deps) == {i \in 1..Len(deps) : deps[i] \notin Range(dependencies.keys)}

\* the dependencies of the list that this.steps does not have
Missing(deps) == {i \in 1..Len(deps) : deps[i] \notin steps}

\* the first of them, the one the loop of addStep throws at
FirstMissing(deps) == deps[CHOOSE i \in Missing(deps) : \A j \in Missing(deps) : i <= j]

\* addStep(name, dependencies); onMissing is the dependency record a call
\* that throws at a missing dependency leaves behind
DeclareStep(op, name, deps, onMissing) ==
  /\ instance = "declaring"
  /\ IF name \in steps
       THEN /\ builder' = [builder EXCEPT !.last = Call(op, name, deps, DuplicateStepError(name))]
            /\ UNCHANGED dependencies
     ELSE IF Missing(deps) # {}
       THEN /\ builder' = [builder EXCEPT !.last =
                             Call(op, name, deps, MissingDependencyError(name, FirstMissing(deps)))]
            /\ dependencies' = onMissing
     ELSE /\ builder' = [builder EXCEPT !.last = Call(op, name, deps, NoBuilderError)]
          /\ dependencies' = Assign(dependencies, name, deps)
  /\ UNCHANGED <<calc, steps, flows, containers, instance, nextRun, sync, async, orphans>>

\* mutant: the dependency list is stored before it is validated
addStep_storesFirst(name, deps) ==
  DeclareStep("addStep", name, deps, Assign(dependencies, name, deps))

\* addStep(name, dependencies)
addStep(name, deps) == DeclareStep("addStep", name, deps, dependencies)

\* addStepWithoutDependencies(name)
addStepWithoutDependencies(name) ==
  DeclareStep("addStepWithoutDependencies", name, <<>>, dependencies)

\* StepImplementer.withImplementation, on the implementer a declaration of
\* name returned: this.steps[name] = execute
withImplementation(name) ==
  /\ instance = "declaring"
  /\ name \in Range(dependencies.keys)
  /\ steps' = steps \cup {name}
  /\ builder' = [builder EXCEPT !.last = Call("withImplementation", name, <<>>, NoBuilderError)]
  /\ UNCHANGED <<calc, dependencies, flows, containers, instance, nextRun, sync, async, orphans>>

\* (builder as any).dependencies[name] = [dep], as the test of the cycle
\* check does, once on a builder
tamper(name, dep) ==
  /\ instance = "declaring"
  /\ ~builder.tampered
  /\ name \in Range(dependencies.keys)
  /\ dependencies' = Assign(dependencies, name, <<dep>>)
  /\ builder' = [builder EXCEPT !.tampered = TRUE,
                                !.last = Call("tamper", name, <<dep>>, NoBuilderError)]
  /\ UNCHANGED <<calc, steps, flows, containers, instance, nextRun, sync, async, orphans>>

\* mutant: the base graph is not checked for cycles
checkForCircularDependencies_skipped == NoBuilderError

\* checkForCircularDependencies: the Error it throws, if any
checkForCircularDependencies ==
  IF hasCircularDependency(dependencies) THEN CircularDependencyError("") ELSE NoBuilderError

\* `Flow "${flowName}" references step "${stepName}" which does not exist
\* in the main workflow`
UnknownStepError(flowName, stepName) ==
  [NoBuilderError EXCEPT !.kind = "unknownStep", !.flow = flowName, !.step = stepName]

\* `Flow "${flowName}" step "${stepName}" depends on "${dep}" which does
\* not exist in the main workflow`
UnknownDependencyError(flowName, stepName, dep) ==
  [NoBuilderError EXCEPT !.kind = "unknownDependency", !.flow = flowName,
                         !.step = stepName, !.dep = dep]

\* `Flow "${flowName}" step "${stepName}" depends on "${dep}" which is not
\* part of this flow`
FlowScopeError(flowName, stepName, dep) ==
  [NoBuilderError EXCEPT !.kind = "flowScope", !.flow = flowName,
                         !.step = stepName, !.dep = dep]

\* the first element of the sequence q that is not in the set S
FirstOutside(q, S) ==
  q[CHOOSE i \in 1..Len(q) : q[i] \notin S /\ \A j \in 1..(i - 1) : q[j] \in S]

RECURSIVE validateDependencies(_, _, _)
\* mutant: a dependency is only looked up in the base workflow, not in
\* the flow
validateDependencies_scopeUnchecked(flowName, i, j) ==
  LET flow == flows[flowName]
  IN  IF i > Len(flow.keys) THEN NoBuilderError
      ELSE LET stepName == flow.keys[i]
               deps == flow.deps[stepName]
           IN  IF j > Len(deps) THEN validateDependencies(flowName, i + 1, 1)
               ELSE IF deps[j] \notin steps
                 THEN UnknownDependencyError(flowName, stepName, deps[j])
               ELSE validateDependencies(flowName, i, j + 1)

\* for (const [stepName, deps] of Object.entries(flow.dependencies))
\*   for (const dep of deps) ...: the Error thrown from dependency j of
\* key i onwards, if any
validateDependencies(flowName, i, j) ==
  LET flow == flows[flowName]
  IN  IF i > Len(flow.keys) THEN NoBuilderError
      ELSE LET stepName == flow.keys[i]
               deps == flow.deps[stepName]
           IN  IF j > Len(deps) THEN validateDependencies(flowName, i + 1, 1)
               ELSE IF deps[j] \notin steps
                 THEN UnknownDependencyError(flowName, stepName, deps[j])
               ELSE IF deps[j] \notin Range(flow.keys)
                 THEN FlowScopeError(flowName, stepName, deps[j])
               ELSE validateDependencies(flowName, i, j + 1)

\* mutant: the flow's own graph is not checked for cycles
validateFlow_cyclesUnchecked(flowName) ==
  IF Range(builder.flowSteps[flowName]) \subseteq steps
    THEN validateDependencies(flowName, 1, 1)
  ELSE UnknownStepError(flowName, FirstOutside(builder.flowSteps[flowName], steps))

\* the body of the loop of validateFlows for one flow; the keys of
\* flow.steps are the steps an action was registered for
validateFlow(flowName) ==
  IF hasCircularDependency(flows[flowName]) THEN CircularDependencyError(flowName)
  ELSE IF Range(builder.flowSteps[flowName]) \subseteq steps
    THEN validateDependencies(flowName, 1, 1)
  ELSE UnknownStepError(flowName, FirstOutside(builder.flowSteps[flowName], steps))

RECURSIVE validateFlowsFrom(_)
\* for (const [flowName, flow] of Object.entries(this.flows))
validateFlowsFrom(k) ==
  IF k > Len(builder.flowOrder) THEN NoBuilderError
  ELSE LET error == validateFlow(builder.flowOrder[k])
       IN  IF error # NoBuilderError THEN error ELSE validateFlowsFrom(k + 1)

\* validateFlows: the Error it throws, if any
validateFlows == validateFlowsFrom(1)

\* build() and buildAsync() up to new WorkflowInstance(...): the two
\* validations, then createBuildFlow.  A validation that throws ends the
\* call: there is no instance.  The run of the build flow that follows
\* is build or buildAsync
BuilderBuild ==
  /\ instance = "declaring"
  /\ LET error == IF checkForCircularDependencies # NoBuilderError
                    THEN checkForCircularDependencies ELSE validateFlows
     IN  /\ builder' = [builder EXCEPT !.last = Call("build", "", <<>>, error)]
         /\ IF error # NoBuilderError
              THEN /\ instance' = "rejected"
                   /\ UNCHANGED flows
              ELSE /\ instance' = "unbuilt"
                   /\ flows' = [f \in DOMAIN flows \cup {buildFlowName} |->
                                  IF f = buildFlowName THEN createBuildFlow(dependencies)
                                  ELSE flows[f]]
  /\ UNCHANGED <<calc, steps, dependencies, containers, nextRun, sync, async, orphans>>

\* the run of the build flow that build() or buildAsync() starts on the
\* new instance
BuildRun ==
  \/ build
  \/ SyncBuildStep
  \/ SyncReturn
  \/ SyncDeliver
  \/ buildAsync
  \/ AsyncDispatch
  \/ \E stepName \in Names : AsyncFulfil(stepName)
  \/ \E stepName \in Names : AsyncReject(stepName)
  \/ AsyncJoinReject
  \/ AsyncJoin
  \/ AsyncDeliver
  \/ \E o \in orphans : OrphanFulfil(o)
  \/ \E o \in orphans : OrphanReject(o)

\* a new WorkflowBuilder()
InitSteps ==
  /\ steps = {}
  /\ dependencies = [keys |-> <<>>, deps |-> <<>>]
  /\ flows = <<>>
  /\ containers = Empty
  /\ instance = "declaring"
  /\ nextRun = 1
  /\ sync = IdleSync
  /\ async = IdleAsync
  /\ orphans = {}
  /\ builder = NoBuilder
  /\ calc = NoCalc

DeclareNext ==
  \/ \E name \in Names, deps \in ListsOver(Names, MaxDeps) : addStep(name, deps)
  \/ \E name \in Names : addStepWithoutDependencies(name)
  \/ \E name \in Names : withImplementation(name)
  \/ BuilderBuild

NextSteps == DeclareNext \/ BuildRun

\* the declaration of steps through the builder's methods, then build
SpecSteps == InitSteps /\ [][NextSteps]_vars

NextTampered ==
  \/ DeclareNext
  \/ \E name \in Names, dep \in Names : tamper(name, dep)
  \/ BuildRun

\* the same with one write to the builder's private dependency record
SpecTampered == InitSteps /\ [][NextTampered]_vars

----------------------------------------------------------------------------
(* WorkflowBuilder and FlowBuilder: the declaration of flows.              *)
(* builder.fbs are the FlowBuilder objects defineFlow has returned, in     *)
(* order; builder.flowOrder is the insertion order of the keys of          *)
(* this.flows and builder.flowSteps[f] that of the keys of flows[f].steps. *)

\* the FlowBuilder objects a run of the model creates
FlowBuilders == {1, 2}

\* the flow names defineFlow is called with
FlowNames == {"f", "g"}

\* the step names addFlowStep is called with on each FlowBuilder: on the
\* first, a step the base workflow has and one it does not have; on the
\* second, the step the base workflow has
FlowStepNames(fb) == IF fb = 1 THEN {StepNames[1], StepNames[3]} ELSE {StepNames[1]}

\* the dependency lists addFlowStep is called with
FlowDepLists == ListsOver(Names, 1)

\* `Flow "${flowName}" already exists`
DuplicateFlowError(flowName) ==
  [NoBuilderError EXCEPT !.kind = "duplicateFlow", !.flow = flowName]

\* `Flow step "${stepName}" already exists in flow "${this.flowName}"`
DuplicateFlowStepError(flowName, stepName) ==
  [NoBuilderError EXCEPT !.kind = "duplicateFlowStep", !.flow = flowName, !.step = stepName]

\* new FlowBuilder(this, flowName)
NewFlowBuilder(flowName) ==
  [flowName |-> flowName, status |-> "open",
   flowDependencies |-> [keys |-> <<>>, deps |-> <<>>], flowSteps |-> <<>>]

\* defineFlow(flowName)
defineFlow(flowName) ==
  /\ instance = "declaring"
  /\ IF flowName \in DOMAIN flows
       THEN builder' = [builder EXCEPT
                          !.last = Call("defineFlow", "", <<>>, DuplicateFlowError(flowName))]
       ELSE /\ Len(builder.fbs) + 1 \in FlowBuilders
            /\ builder' = [builder EXCEPT
                             !.fbs = Append(@, NewFlowBuilder(flowName)),
                             !.last = Call("defineFlow", "", <<>>, NoBuilderError)]
  /\ UNCHANGED <<calc, steps, dependencies, flows, containers, instance, nextRun,
                 sync, async, orphans>>

\* FlowBuilder.addFlowStep(stepName, dependencies) on the FlowBuilder fb,
\* before its endFlow
addFlowStep(fb, stepName, deps) ==
  /\ instance = "declaring"
  /\ fb \in DOMAIN builder.fbs
  /\ builder.fbs[fb].status = "open"
  /\ IF stepName \in Range(builder.fbs[fb].flowSteps)
       THEN builder' = [builder EXCEPT
                          !.last = Call("addFlowStep", "", <<>>,
                                        DuplicateFlowStepError(builder.fbs[fb].flowName,
                                                               stepName))]
       ELSE builder' = [builder EXCEPT
                          !.fbs[fb].flowDependencies = Assign(@, stepName, deps),
                          !.last = Call("addFlowStep", "", <<>>, NoBuilderError)]
  /\ UNCHANGED <<calc, steps, dependencies, flows, containers, instance, nextRun,
                 sync, async, orphans>>

\* FlowStepImplementer.withFlowAction, on the implementer addFlowStep
\* returned for stepName: this.flowSteps[stepName] = { action }
withFlowAction(fb, stepName) ==
  /\ instance = "declaring"
  /\ fb \in DOMAIN builder.fbs
  /\ builder.fbs[fb].status = "open"
  /\ stepName \in Range(builder.fbs[fb].flowDependencies.keys)
  /\ builder' = [builder EXCEPT
                   !.fbs[fb].flowSteps = IF stepName \in Range(@) THEN @
                                         ELSE Append(@, stepName),
                   !.last = Call("withFlowAction", "", <<>>, NoBuilderError)]
  /\ UNCHANGED <<calc, steps, dependencies, flows, containers, instance, nextRun,
                 sync, async, orphans>>

\* FlowBuilder.endFlow(): this.flows[flowName] = { steps, dependencies }
endFlow(fb) ==
  /\ instance = "declaring"
  /\ fb \in DOMAIN builder.fbs
  /\ builder.fbs[fb].status = "open"
  /\ LET flowName == builder.fbs[fb].flowName
         flowDef == [keys |-> builder.fbs[fb].flowDependencies.keys,
                     deps |-> builder.fbs[fb].flowDependencies.deps,
                     steps |-> Range(builder.fbs[fb].flowSteps)]
     IN  /\ flows' = [f \in DOMAIN flows \cup {flowName} |->
                        IF f = flowName THEN flowDef ELSE flows[f]]
         /\ builder' = [builder EXCEPT
                          !.fbs[fb].status = "ended",
                          !.flowSteps = [f \in DOMAIN flows \cup {flowName} |->
                                           IF f = flowName THEN builder.fbs[fb].flowSteps
                                           ELSE builder.flowSteps[f]],
                          !.flowOrder = IF flowName \in DOMAIN flows THEN @
                                        ELSE Append(@, flowName),
                          !.last = Call("endFlow", "", <<>>, NoBuilderError)]
  /\ UNCHANGED <<calc, steps, dependencies, containers, instance, nextRun,
                 sync, async, orphans>>

\* a builder on which two steps without dependencies have been declared
\* and implemented
InitFlows ==
  /\ steps = {StepNames[1], StepNames[2]}
  /\ dependencies = Assign(Assign([keys |-> <<>>, deps |-> <<>>], StepNames[1], <<>>),
                           StepNames[2], <<>>)
  /\ flows = <<>>
  /\ containers = Empty
  /\ instance = "declaring"
  /\ nextRun = 1
  /\ sync = IdleSync
  /\ async = IdleAsync
  /\ orphans = {}
  /\ builder = NoBuilder
  /\ calc = NoCalc

NextFlows ==
  \/ \E flowName \in FlowNames : defineFlow(flowName)
  \/ \E fb \in FlowBuilders : \E stepName \in FlowStepNames(fb), deps \in FlowDepLists :
       addFlowStep(fb, stepName, deps)
  \/ \E fb \in FlowBuilders : \E stepName \in FlowStepNames(fb) : withFlowAction(fb, stepName)
  \/ \E fb \in FlowBuilders : endFlow(fb)
  \/ BuilderBuild
  \/ BuildRun

\* the declaration of flows through the builder's methods, then build
SpecFlows == InitFlows /\ [][NextFlows]_vars

----------------------------------------------------------------------------
(* Properties of the builder *)

\* this step is the call of build() or buildAsync()
BuildCalled == instance = "declaring" /\ instance' # "declaring"

\* no instance exists and nothing has run: no implementation or action was
\* invoked, no run was started, the store is empty
NothingRan ==
  /\ sync = IdleSync
  /\ async = IdleAsync
  /\ orphans = {}
  /\ nextRun = 1
  /\ containers = Empty

\* C12: if the base dependency graph has a cycle, build() and buildAsync()
\* fail with the circular-dependency error of the workflow; no instance
\* is returned and no step implementation is invoked
C12_BaseCycleFailsBuild ==
  /\ [][(BuildCalled /\ ~Acyclic(dependencies)) =>
          /\ instance' = "rejected"
          /\ builder'.last.error = CircularDependencyError("")]_vars
  /\ [](instance = "rejected" => NothingRan)
  /\ [][instance = "rejected" => instance' = "rejected"]_vars

\* build was called on a builder with two implemented steps that depend
\* on each other, and threw
C12_Witness ==
  /\ instance = "rejected"
  /\ \E s, t \in steps :
       /\ s # t
       /\ s \in Range(DepsOf(dependencies, t))
       /\ t \in Range(DepsOf(dependencies, s))

\* this step is a call of addStep or addStepWithoutDependencies
DeclarationCalled ==
  /\ instance = "declaring"
  /\ builder'.last # builder.last
  /\ builder'.last.op \in {"addStep", "addStepWithoutDependencies"}

\* the names declared so far: the keys of the dependency graph
Declared == Range(dependencies.keys)

\* C18 as stated: after any sequence of declarations, declaring a step
\* under a name that has already been declared is rejected with the
\* duplicate-step error and leaves the step registry and the dependency
\* graph unchanged
C18_DuplicateStepRejected_AsStated ==
  [][(DeclarationCalled /\ builder'.last.name \in Declared) =>
       /\ builder'.last.error = DuplicateStepError(builder'.last.name)
       /\ steps' = steps
       /\ dependencies' = dependencies]_vars

\* the dependencies of the call that the graph does not have as keys
Undeclared(deps) == {i \in 1..Len(deps) : deps[i] \notin Declared}

CyclicFlows == {f \in DOMAIN flows : ~Acyclic(flows[f])}

\* the place of a registered flow in the order build() validates them in
FlowPosition(f) == CHOOSE k \in 1..Len(builder.flowOrder) : builder.flowOrder[k] = f

\* the flow passes every check of build(): its graph is acyclic, its
\* actions are for steps of the base workflow, and its dependencies are
\* steps of the base workflow and of the flow
WellFormed(f) ==
  /\ Acyclic(flows[f])
  /\ flows[f].steps \subseteq steps
  /\ NodesOf(flows[f]) \ Range(flows[f].keys) = {}
  /\ \A n \in Range(flows[f].keys) : Range(flows[f].deps[n]) \subseteq steps

\* C13 as stated: if the flow-local graph of any declared flow has a
\* cycle, build() and buildAsync() fail with a circular-dependency error
\* that identifies that flow by name, even when the base graph is
\* acyclic, and no step implementation is invoked
C13_FlowCycleFailsBuild_AsStated ==
  /\ [][(BuildCalled /\ CyclicFlows # {}) =>
          /\ instance' = "rejected"
          /\ \E f \in CyclicFlows : builder'.last.error = CircularDependencyError(f)]_vars
  /\ [](instance = "rejected" => NothingRan)

\* C13 amended: such a build fails and no step implementation is invoked;
\* the error comes from the first flow, in the order the flows were
\* registered, that fails a check: it is the circular-dependency error
\* naming the cyclic flow when every flow registered before it is well
\* formed, and otherwise the error of an earlier flow
C13_FlowCycleFailsBuild ==
  /\ [][BuildCalled =>
          \A f \in CyclicFlows :
             /\ Acyclic(dependencies)
             /\ instance' = "rejected"
             /\ \E k \in 1..FlowPosition(f) :
                  builder'.last.error.flow = builder.flowOrder[k]
             /\ builder'.last.error.flow = f =>
                  builder'.last.error = CircularDependencyError(f)
             /\ (\A k \in 1..(FlowPosition(f) - 1) : WellFormed(builder.flowOrder[k]))
                  => builder'.last.error = CircularDependencyError(f)]_vars
  /\ [](instance = "rejected" => NothingRan)
  /\ [][instance = "rejected" => instance' = "rejected"]_vars

\* build has thrown the circular-dependency error of the flow registered
\* second, after a well-formed flow with an action
C13_Witness ==
  /\ instance = "rejected"
  /\ Len(builder.flowOrder) = 2
  /\ builder.last.error = CircularDependencyError(builder.flowOrder[2])
  /\ flows[builder.flowOrder[1]].steps # {}

\* the registered flows that include a step name the base workflow does
\* not have
FlowsWithUnknownStep == {f \in DOMAIN flows : Range(flows[f].keys) \ Declared # {}}

\* C20 as stated: a flow that includes a step name absent from the base
\* step set is accepted by addFlowStep and endFlow, but makes build() and
\* buildAsync() fail with an unknown-step error before any step
\* implementation is invoked
C20_UnknownFlowStepFailsBuild_AsStated ==
  /\ [][(builder'.last # builder.last /\ builder'.last.op \in {"addFlowStep", "endFlow"}) =>
          builder'.last.error.kind \in {"", "duplicateFlowStep"}]_vars
  /\ [][(BuildCalled /\ FlowsWithUnknownStep # {}) =>
          /\ instance' = "rejected"
          /\ builder'.last.error.kind \in {"unknownStep", "unknownDependency"}]_vars
  /\ [](instance = "rejected" => NothingRan)

\* the dependencies of flow f that are steps of the base workflow but not
\* steps of the flow, as pairs <<step, dependency>>
OutOfScope(f) ==
  {<<n, d>> \in Range(flows[f].keys) \X Names :
     d \in Range(flows[f].deps[n]) /\ d \in Declared /\ d \notin Range(flows[f].keys)}

\* every dependency a flow names is one of the flow's own steps
ClosedFlows == \A f \in DOMAIN flows : NodesOf(flows[f]) \subseteq Range(flows[f].keys)

EndedBeforeStart(t, s) ==
  \E i \in Events("end", t) : \E j \in Events("start", s) : i < j

\* C22 as stated: in either mode, the context passed to a step's action
\* holds the flow result of every step of this run that had finished when
\* the action started, not only those of its declared dependencies
C22_ContextHoldsAllFinished_AsStated ==
  /\ (sync.flowName \in DOMAIN flows /\ sync.flowName # buildFlowName) =>
        \A j \in 1..Len(sync.invoked) : \A i \in 1..(j - 1) :
           sync.args[sync.invoked[j]][sync.invoked[i]]
             = ActionValue(sync.invoked[i], sync.run)
  /\ (async.flowName \in DOMAIN flows /\ async.flowName # buildFlowName) =>
        \A s \in AsyncInvoked : \A t \in Names :
           (EndedBeforeStart(t, s) /\ async.outcome[t] # "throw") =>
             async.args[s][t] = ActionValue(t, async.run)

\* C22 amended: in a blocking run the context holds the result of every
\* step that finished before the action started; in a concurrent run it
\* holds exactly the results of the steps of the levels below the step's
\* own level, and not that of a step of its own level that has finished
C22_ContextHoldsAllFinished ==
  /\ (sync.flowName \in DOMAIN flows /\ sync.flowName # buildFlowName) =>
        \A j \in 1..Len(sync.invoked) : \A n \in Names :
           sync.args[sync.invoked[j]][n]
             = IF \E i \in 1..(j - 1) : sync.invoked[i] = n
                 THEN ActionValue(n, sync.run) ELSE Undefined
  /\ (async.flowName \in DOMAIN flows /\ async.flowName # buildFlowName) =>
        \A s \in AsyncInvoked : \A n \in Names :
           async.args[s][n]
             = IF /\ n \in flows[async.flowName].steps
                  /\ \E k \in Levels : n \in Level(k) /\ k < LevelOf(s)
                 THEN ActionValue(n, async.run) ELSE Undefined

\* a blocking run has invoked an action with the result of a step that is
\* not among its dependencies, and a concurrent run has invoked one
\* without the result of a step of its level that had finished
C22_Witness ==
  /\ sync.flowName \in DOMAIN flows /\ sync.flowName # buildFlowName
  /\ \E s \in Range(sync.invoked) : \E n \in Names \ FlowDeps(sync.flowName, s) :
        sync.args[s][n] = ActionValue(n, sync.run)
  /\ async.flowName \in DOMAIN flows /\ async.flowName # buildFlowName
  /\ \E s \in AsyncInvoked : \E t \in Names :
        /\ EndedBeforeStart(t, s)
        /\ async.outcome[t] = "value"
        /\ async.args[s][t] = Undefined

\* C23 as stated: when an executeAsync run fails because a step of some
\* level failed, the whole level has been joined before the run ends:
\* every other step dispatched in that level has settled, so the run
\* writes no container entry after its rejection has reached the caller
C23_FailedLevelIsJoined_AsStated ==
  /\ [](async.status = "rejected" => \A s \in Names : async.state[s] # "awaiting")
  /\ [](orphans = {})
  /\ [][\A o \in orphans : o \notin orphans' => containers' = containers]_vars

\* the steps of the concurrent run that were invoked and have not settled
InFlight == {s \in Names : Events("start", s) # {} /\ Events("end", s) = {}}

\* a build-flow run of executeAsync is under way
AsyncBuildRun == async.status = "pending" /\ async.flowName = buildFlowName

\* in this step the container of n is written by step n of the concurrent
\* run, which completes
WrittenByOwnStep(n) ==
  /\ async.state[n] # "fulfilled"
  /\ async'.state[n] = "fulfilled"
  /\ containers'[n] = StepValue(n, async.run)

----------------------------------------------------------------------------
(* Properties of groupStepsByLevel *)

\* the pairs <<k, i>> at which levels[k][i] is the step n
Places(levels, n) ==
  {p \in UNION {{<<k, i>> : i \in 1..Len(levels[k])} : k \in 1..Len(levels)} :
     levels[p[1]][p[2]] = n}

\* the level number groupStepsByLevel gave the step n
PlacedLevel(levels, n) == (CHOOSE p \in Places(levels, n) : TRUE)[1] - 1

\* C25: groupStepsByLevel returns non-empty groups that contain every step
\* of the execution order exactly once and nothing else; the group a step
\* is in is number 0 when the step has no flow dependencies and one more
\* than the highest group of its dependencies otherwise; the diamond
\* a, b(a), c(a), d(b, c) gives [a], [b, c], [d]
C25_LevelsPartitionTheOrder ==
  calc.fn = "groupStepsByLevel" =>
    LET levels == calc.out.levels
        order  == calc.out.executionOrder
    IN  /\ \A k \in 1..Len(levels) : levels[k] # <<>> /\ Range(levels[k]) \subseteq Range(order)
        /\ \A n \in Range(order) :
             /\ Cardinality(Places(levels, n)) = 1
             /\ PlacedLevel(levels, n) =
                  IF DepsOf(calc.graph, n) = <<>> THEN 0
                  ELSE 1 + (CHOOSE m \in 0..Len(levels) :
                              /\ \E d \in Range(DepsOf(calc.graph, n)) :
                                   PlacedLevel(levels, d) = m
                              /\ \A d \in Range(DepsOf(calc.graph, n)) :
                                   PlacedLevel(levels, d) <= m)
        /\ calc.graph = Diamond => levels = <<<<"a">>, <<"b", "c">>, <<"d">>>>

\* the diamond has been grouped into three levels
C25_Witness ==
  /\ calc.fn = "groupStepsByLevel"
  /\ calc.graph = Diamond
  /\ Len(calc.out.levels) = 3

\* C26: in the levels of a validated flow graph (acyclic, every dependency
\* a step of the flow) no step of a level depends, directly or through
\* other steps, on a step of the same level
C26_SameLevelIndependent ==
  (calc.fn = "groupStepsByLevel" /\ Acyclic(calc.graph) /\ Closed(calc.graph)) =>
    \A k \in 1..Len(calc.out.levels) :
      \A s, t \in Range(calc.out.levels[k]) :
        ~PathWithin(calc.graph, s, t, Cardinality(NodesOf(calc.graph)))

\* a validated graph has been grouped into two levels, the second of which
\* holds two steps
C26_Witness ==
  /\ calc.fn = "groupStepsByLevel"
  /\ Acyclic(calc.graph) /\ Closed(calc.graph)
  /\ Len(calc.out.levels) = 2
  /\ Len(calc.out.levels[2]) = 2

----------------------------------------------------------------------------
(* Properties of hasCircularDependency and of failing sorts *)

\* C27, as stated: hasCircularDependency called without a start node
\* returns true exactly when some node of the graph depends, directly or
\* through other nodes, on itself: self-loops and cycles that cannot be
\* reached from the first node included
C27_DetectsEveryCycle_AsStated ==
  calc.fn = "hasCircularDependency" => (calc.out <=> ~Acyclic(calc.graph))

\* C28, as stated: topologicalSort returns or throws on every graph, and on
\* a graph with a cycle it throws its circular-dependency error: it returns
\* no order, whole or truncated
C28_CyclicSortFails_AsStated ==
  (calc.fn = "topologicalSort" /\ ~Acyclic(calc.graph)) =>
    /\ calc.out.err
    /\ calc.out.thrown = "circular"

----------------------------------------------------------------------------
(* Progress of concurrent runs *)

\* every step of the level the run is at has settled
LevelSettled ==
  \A s \in LevelSteps : async.state[s] \in {"fulfilled", "skipped", "rejected"}

\* C29: provided every promise a step returned settles, a pending
\* executeAsync run is eventually resolved or rejected, and a level whose
\* steps have all settled is followed by the next level or by the end of
\* the run
C29_RunsSettle ==
  /\ (async.status = "pending") ~> (async.status \in {"resolved", "rejected"})
  /\ \A k \in 1..Len(StepNames) :
       (async.status = "pending" /\ async.level = k /\ LevelSettled)
         ~> \/ async.status \in {"resolved", "rejected"}
            \/ async.status = "pending" /\ async.level = k + 1

\* a run of two levels has resolved after a promise of its second level
\* was awaited
C29_Witness ==
  /\ async.status = "resolved"
  /\ Len(async.levelGroups) = 2
  /\ \E s \in Range(async.levelGroups[2]) : async.outcome[s] = "promise"

\* the value is a promise, not what a promise was fulfilled with
Deferred(v) == Len(v) = 3 /\ v[3] = "promise"

\* C30: no entry of the containers, of the context of a concurrent run or
\* of its results is a promise: what a step or action returned as a promise
\* is written only as the value the promise was fulfilled with
C30_NoDeferredValueStored ==
  \A n \in Names :
    /\ ~Deferred(containers[n])
    /\ ~Deferred(async.context[n])
    /\ ~Deferred(async.results[n])
    /\ (async.state[n] = "fulfilled" /\ async.outcome[n] = "promise") =>
         /\ async.value[n] = Produced(async.flowName, n, async.run)
         /\ async.flowName = buildFlowName => containers[n] # Undefined

\* a concurrent run of a user flow has resolved with the result of an
\* action that returned a promise, while the containers are filled
C30_Witness ==
  /\ async.status = "resolved"
  /\ async.flowName # buildFlowName
  /\ \E n \in Names :
       /\ async.outcome[n] = "promise"
       /\ async.results[n] = ActionValue(n, async.run)
       /\ async.context[n] = ActionValue(n, async.run)
  /\ \E n \in Names : \E r \in 1..(MaxRuns + 1) : containers[n] = StepValue(n, r)

----------------------------------------------------------------------------
(* Definition errors and the build-flow run *)

\* C31, as stated: once the validations of build() or buildAsync() have
\* passed, the run of the build flow does not fail for a reason of the
\* definition: a step at which the run fails has an implementation
C31_NoDeferredDefinitionError_AsStated ==
  /\ (sync.api = "build" /\ sync.status = "raised") => sync.error.step \in steps
  /\ (async.api = "buildAsync" /\ async.status = "rejected") => async.error.step \in steps

----------------------------------------------------------------------------
(* Duplicate flows and flow steps *)

\* C32, as stated: a defineFlow that returns a FlowBuilder was not given
\* the name of a flow declared before on this builder, and no endFlow
\* replaces the definition registered under a name
C32_DuplicateFlowRejected_AsStated ==
  [][/\ Len(builder'.fbs) > Len(builder.fbs) =>
          \A fb \in DOMAIN builder.fbs :
             builder.fbs[fb].flowName # builder'.fbs[Len(builder'.fbs)].flowName
     /\ instance = "declaring" =>
          \A f \in DOMAIN flows : f \in DOMAIN flows' /\ flows'[f] = flows[f]]_vars

\* C33, as stated: an addFlowStep that is accepted adds a step the flow
\* did not have, and no call changes the dependency list recorded for a
\* step of a flow
C33_DuplicateFlowStepRejected_AsStated ==
  [][/\ (/\ builder' # builder
          /\ builder'.last.op = "addFlowStep"
          /\ builder'.last.error = NoBuilderError) =>
          \E fb \in DOMAIN builder.fbs :
             Len(builder'.fbs[fb].flowDependencies.keys) >
               Len(builder.fbs[fb].flowDependencies.keys)
     /\ \A fb \in DOMAIN builder.fbs :
          \A n \in Range(builder.fbs[fb].flowDependencies.keys) :
             builder'.fbs[fb].flowDependencies.deps[n] =
               builder.fbs[fb].flowDependencies.deps[n]]_vars

----------------------------------------------------------------------------
(* The container store of a built instance *)

\* C34: once build() or buildAsync() has returned the instance, every
\* declared step has a container entry, and no call on the instance,
\* failed or not, takes an entry away: an action of a user flow finds the
\* container of its step filled
C34_ContainersStayPopulated ==
  /\ [](instance = "ready" => \A n \in Range(dependencies.keys) : containers[n] # Undefined)
  /\ [][instance = "ready" =>
          \A n \in Range(dependencies.keys) :
             containers[n] # Undefined => containers'[n] # Undefined]_vars

\* a refresh of the built instance has failed at a step that is not the
\* first of its order, after a concurrent run of a user flow invoked an
\* action
C34_Witness ==
  /\ instance = "ready"
  /\ sync.api = "refresh" /\ sync.status = "raised"
  /\ Len(sync.invoked) > 1
  /\ async.status = "pending" /\ async.flowName # buildFlowName
  /\ \E n \in Names : async.state[n] = "awaiting"

----------------------------------------------------------------------------
(* The base graph the builder's methods can produce *)

----------------------------------------------------------------------------
(* The blocking and the concurrent mode side by side *)

\* a value without the number of the run that produced it: what a
\* deterministic implementation or action returns in any run
Untag(v) == IF Len(v) < 2 THEN v ELSE IF Len(v) = 2 THEN <<v[1]>> ELSE <<v[1], v[3]>>

\* a blocking and a concurrent run of one flow have both ended, and their
\* implementations or actions behaved as deterministic and non-deferred
\* ones do: none returned a promise, and one invoked in both runs threw in
\* both or in neither.  An implementation that returned for build()
\* returns in every run of the build flow
SameFlowBothModes ==
  /\ sync.status \in {"returned", "raised"}
  /\ async.status \in {"resolved", "rejected"}
  /\ sync.flowName = async.flowName
  /\ sync.flowName \in DOMAIN flows
  /\ \A n \in Names :
       /\ sync.outcome[n] # "promise" /\ async.outcome[n] # "promise"
       /\ (sync.outcome[n] # "" /\ async.outcome[n] # "") => sync.outcome[n] = async.outcome[n]
       /\ sync.flowName = buildFlowName =>
            sync.outcome[n] # "throw" /\ async.outcome[n] # "throw"

----------------------------------------------------------------------------
(* Container generations seen by a concurrent run *)

\* C37, as stated: every action a concurrent run of a user flow has
\* invoked was given the container value its step had when the run
\* started, a refresh() made between two levels of the run notwithstanding
C37_SingleGeneration_AsStated ==
  (async.flowName \in DOMAIN flows /\ async.flowName # buildFlowName) =>
    \A s \in AsyncInvoked \cap flows[async.flowName].steps :
      async.container[s] = async.before[s]

----------------------------------------------------------------------------
(* refresh() on an instance with deferred steps *)

\* C38: refresh() is a blocking run of the build flow; when the
\* implementation of a step s returns a promise in it, the run raises the
\* error of s, the steps before s in the order hold the values of this
\* run, and s and the steps after it hold the values they had before
C38_RefreshIsBlocking ==
  /\ [](sync.api = "refresh" => sync.flowName = buildFlowName)
  /\ [][\A s \in Names :
          (sync.api = "refresh" /\ sync.outcome[s] = "" /\ sync'.outcome[s] = "promise") =>
             /\ sync'.status = "raised"
             /\ sync'.error = [step |-> s, cause |-> "promise"]]_vars
  /\ []((sync.api = "refresh" /\ sync.status = "raised" /\ sync.error.cause = "promise") =>
          \A k \in 1..Len(sync.executionOrder) :
             LET n == sync.executionOrder[k]
             IN  /\ k < sync.i => containers[n] = StepValue(n, sync.run)
                 /\ k >= sync.i => containers[n] = sync.before[n]
                 /\ k = sync.i <=> n = sync.error.step)

\* a refresh has raised at the second of three steps, which returned a
\* promise
C38_Witness ==
  /\ sync.api = "refresh"
  /\ sync.status = "raised"
  /\ sync.error.cause = "promise"
  /\ sync.i = 2
  /\ Len(sync.executionOrder) = 3
  /\ sync.before[sync.error.step] # Undefined

----------------------------------------------------------------------------
(* Steps of a flow that have no action *)

\* the steps of the flow's graph no action was registered for
Actionless(flowName) == Range(flows[flowName].keys) \ flows[flowName].steps

\* C39: a step of a flow's graph that has no action is passed over in
\* execute and in executeAsync: it is not invoked, no run fails at it, it
\* gets no result and no context entry, and a run that ends well has
\* invoked every step that has an action, those that depend on the
\* action-less step included
C39_ActionlessStepSkipped ==
  /\ sync.flowName \in DOMAIN flows =>
       /\ \A n \in Actionless(sync.flowName) :
            /\ n \notin Range(sync.invoked)
            /\ sync.error.step # n
            /\ sync.results[n] = Undefined /\ sync.context[n] = Undefined
       /\ sync.status = "returned" =>
            \A s \in flows[sync.flowName].steps :
               s \in Range(sync.invoked) /\ sync.results[s] # Undefined
  /\ async.flowName \in DOMAIN flows =>
       /\ \A n \in Actionless(async.flowName) :
            /\ n \notin AsyncInvoked
            /\ async.state[n] \in {"idle", "skipped"}
            /\ async.error.step # n
            /\ async.results[n] = Undefined /\ async.context[n] = Undefined
       /\ async.status = "resolved" =>
            \A s \in flows[async.flowName].steps :
               s \in AsyncInvoked /\ async.results[s] # Undefined

\* a blocking and a concurrent run of the flow partial have both ended
\* well: its first step has no action and its two other steps depend on it
C39_Witness ==
  /\ sync.flowName = "partial" /\ sync.status = "returned"
  /\ async.flowName = "partial" /\ async.status = "resolved"
  /\ Actionless("partial") # {}
  /\ \E n \in Actionless("partial") : \E s \in flows["partial"].steps :
       /\ n \in FlowDeps("partial", s)
       /\ sync.results[s] # Undefined
       /\ async.results[s] # Undefined
       /\ async.state[n] = "skipped"

====
